---- MODULE Spec2Model ----
(***************************************************************************)
(* Calendar-driven scheduler of the Granola meeting automator:             *)
(* scheduler.ts (scheduleProcessing, findMatchingDoc, refreshSchedule,     *)
(* main), state.ts (the dedup store kept in a JSON file) and cli.ts (the   *)
(* manual commands, a second process sharing the state file).              *)
(*                                                                         *)
(* Times are counted from the instant the scheduler is first started, in   *)
(* seconds: TLC's integers have 32 bits, and a wait beyond the 2^31-1      *)
(* milliseconds of a Node timer has to be representable.  Every duration   *)
(* of the code is written as in the code, in milliseconds, inside Sec().   *)
(***************************************************************************)
EXTENDS Integers, Sequences, FiniteSets, TLC

VARIABLES
  now,                \* Date.now()
  config,             \* the Config loadConfig returned
  scheduledEventIds,  \* scheduler.ts:17, the in-memory tracked set
  processedIds,       \* state.ts: processedIds of the state file
  timers,             \* pending setTimeout's and the callbacks in flight
  intervalAt,         \* next due time of the setInterval, NotSet before main sets it
  cli,                \* the CLI process: command, argument, position, document
  pipelineDone,       \* history: per document, processMeeting calls of fire callbacks that returned
  failed,             \* history: a callback or a refresh has failed since launch
  step,               \* history: what the handler of the last step did
  released,           \* history, per event id: "yes" since a no-match released it, "rearmed"
                      \* once a refresh has armed it after that, "no" otherwise
  inserted,           \* history: the ids pushed to processedIds since it was last empty, in order
  call                \* the calls of the functions run on their own: arguments, results,
                      \* and for state.ts what each caller has read and not yet written

vars == <<now, config, scheduledEventIds, processedIds, timers, intervalAt,
          cli, pipelineDone, failed, step, released, inserted, call>>

----------------------------------------------------------------------------
(* Bounds of the model *)

Tick == 60
MaxNow == 420
MaxNowCli == 300
MaxTasks == 2
MaxRuns == 2
MaxCliRuns == 1
MaxDocs == 2
MaxMarks == 3
MaxFileIds == 2

----------------------------------------------------------------------------
(* Generic helpers *)

Range(s) == {s[i] : i \in 1..Len(s)}

Max(a, b) == IF a >= b THEN a ELSE b

Abs(x) == IF x < 0 THEN 0 - x ELSE x

\* milliseconds of the code, as seconds of the model
Sec(ms) == ms \div 1000

----------------------------------------------------------------------------
(* Strings are sequences of one-character strings. *)

ToLowerChar(c) ==
  CASE c = "S" -> "s"
    [] c = "P" -> "p"
    [] c = "R" -> "r"
    [] OTHER -> c

toLowerCase(s) == [i \in 1..Len(s) |-> ToLowerChar(s[i])]

RECURSIVE TrimStart(_)
TrimStart(s) ==
  IF s # <<>> /\ Head(s) = " " THEN TrimStart(Tail(s)) ELSE s

RECURSIVE TrimEnd(_)
TrimEnd(s) ==
  IF s # <<>> /\ s[Len(s)] = " " THEN TrimEnd(SubSeq(s, 1, Len(s) - 1)) ELSE s

trim(s) == TrimEnd(TrimStart(s))

includes(hay, needle) ==
  \E i \in 1..(Len(hay) + 1) :
     /\ i + Len(needle) - 1 <= Len(hay)
     /\ SubSeq(hay, i, i + Len(needle) - 1) = needle

----------------------------------------------------------------------------
(* state.ts: the dedup store *)

StateCap == 500

\* Array.prototype.slice(-n)
SliceLast(s, n) == IF Len(s) <= n THEN s ELSE SubSeq(s, Len(s) - n + 1, Len(s))

isProcessed(ids, meetingId) == meetingId \in Range(ids)

\* markProcessed with slice(0, 500) for slice(-500)
markProcessed_keepsFirst(ids, meetingId) ==
  IF meetingId \in Range(ids) THEN ids
  ELSE LET pushed == Append(ids, meetingId)
       IN IF Len(pushed) > StateCap THEN SubSeq(pushed, 1, StateCap) ELSE pushed

\* markProcessed without the includes test of line 37
markProcessed_alwaysPushes(ids, meetingId) ==
  LET pushed == Append(ids, meetingId)
  IN IF Len(pushed) > StateCap THEN SliceLast(pushed, StateCap) ELSE pushed

markProcessed(ids, meetingId) ==
  IF meetingId \in Range(ids) THEN ids
  ELSE LET pushed == Append(ids, meetingId)
       IN IF Len(pushed) > StateCap THEN SliceLast(pushed, StateCap) ELSE pushed

resetState == <<>>

----------------------------------------------------------------------------
(* scheduler.ts: findMatchingDoc *)

TitleWindowMs == Sec(2 * 60 * 60 * 1000)
FallbackWindowMs == Sec(30 * 60 * 1000)

Filter(s, P(_)) == SelectSeq(s, P)

\* Array.prototype.sort with a comparator is stable: insertion keeps the
\* order of elements that compare equal.
RECURSIVE InsertSorted(_, _, _)
InsertSorted(sorted, x, start) ==
  IF sorted = <<>> THEN <<x>>
  ELSE LET last == sorted[Len(sorted)]
       IN IF Abs(last.created_at - start) - Abs(x.created_at - start) <= 0
          THEN Append(sorted, x)
          ELSE Append(InsertSorted(SubSeq(sorted, 1, Len(sorted) - 1), x, start), last)

RECURSIVE SortByDiffFrom(_, _, _)
SortByDiffFrom(s, i, start) ==
  IF i = 0 THEN <<>>
  ELSE InsertSorted(SortByDiffFrom(s, i - 1, start), s[i], start)

\* the sort that leaves the list as it is
SortByDiff_unsorted(s, start) == s

SortByDiff(s, start) == SortByDiffFrom(s, Len(s), start)

NoDoc == [id |-> "none"]

TitleMatches(docs, event) ==
  LET eventTitle == trim(toLowerCase(event.summary))
      eventStart == event.start
      Keep(doc) ==
        LET docTitle == trim(toLowerCase(doc.title))
            timeDiff == Abs(doc.created_at - eventStart)
            withinWindow == timeDiff < TitleWindowMs
        IN withinWindow /\ (\/ docTitle = eventTitle
                            \/ includes(docTitle, eventTitle)
                            \/ includes(eventTitle, docTitle))
  IN Filter(docs, Keep)

\* the fallback filter without its sort
TimeMatches_unsorted(docs, event) ==
  LET Keep(doc) == Abs(doc.created_at - event.start) < FallbackWindowMs
  IN Filter(docs, Keep)

\* the fallback filter with <= for <
TimeMatches_inclusive(docs, event) ==
  LET Keep(doc) == Abs(doc.created_at - event.start) <= FallbackWindowMs
  IN SortByDiff(Filter(docs, Keep), event.start)

TimeMatches(docs, event) ==
  LET Keep(doc) == Abs(doc.created_at - event.start) < FallbackWindowMs
  IN SortByDiff(Filter(docs, Keep), event.start)

\* findMatchingDoc with the time fallback tried first
findMatchingDoc_timeFirst(docs, event) ==
  LET timeMatches == TimeMatches(docs, event)
  IN IF Len(timeMatches) > 0
     THEN timeMatches[1]
     ELSE LET titleMatches == TitleMatches(docs, event)
          IN IF titleMatches = <<>> THEN NoDoc
             ELSE SortByDiff(titleMatches, event.start)[1]

\* findMatchingDoc without the sort of lines 121-125
findMatchingDoc_firstTitleMatch(docs, event) ==
  LET titleMatches == TitleMatches(docs, event)
  IN IF Len(titleMatches) > 0
     THEN titleMatches[1]
     ELSE LET timeMatches == TimeMatches(docs, event)
          IN IF timeMatches = <<>> THEN NoDoc ELSE timeMatches[1]

findMatchingDoc(docs, event) ==
  LET titleMatches == TitleMatches(docs, event)
  IN IF Len(titleMatches) > 0
     THEN SortByDiff(titleMatches, event.start)[1]
     ELSE LET timeMatches == TimeMatches(docs, event)
          IN IF timeMatches = <<>> THEN NoDoc ELSE timeMatches[1]

----------------------------------------------------------------------------
(* The calendar and the notes provider: what the collaborators can return *)

EventIds == {"e1", "e2"}
DocIds == {"d1", "d2"}

\* e1 ended before the scheduler started; e2 ends later, and its end time
\* can be edited in the calendar between two refreshes (in five minutes, in
\* thirty days).
CalendarEvents ==
  { [id |-> "e1", summary |-> <<"S", "p">>, start |-> 0 - 1800, end |-> 0 - 600] }
  \cup
  { [id |-> "e2", summary |-> <<"s", "p", " ">>, start |-> 0 - 1200, end |-> e]
      : e \in {300, 2592000} }

\* parseRows: one row per ROWID, ORDER BY ZSTARTDATE ASC
CalendarResults ==
  { s \in UNION {[1..n -> CalendarEvents] : n \in 0..Cardinality(EventIds)} :
      \A i, j \in 1..Len(s) : i < j => s[i].start < s[j].start }

\* what `await fetchTodaysEvents()` gives: a list, or a rejection
\* (getDbPath throws when no database file is found)
FetchOutcomes ==
  { [threw |-> FALSE, events |-> s] : s \in CalendarResults }
  \cup { [threw |-> TRUE, events |-> <<>>] }

GranolaDocuments ==
  { [id |-> "d1", title |-> <<"s", "p">>, created_at |-> 0 - 1740],
    [id |-> "d2", title |-> <<"R">>, created_at |-> 0 - 1500] }

\* fetchDocuments(20): any list of distinct documents
DocumentLists ==
  { s \in UNION {[1..n -> GranolaDocuments] : n \in 0..Cardinality(DocIds)} :
      \A i, j \in 1..Len(s) : i # j => s[i].id # s[j].id }

\* notesMarkdown and transcript of a fetched meeting
Texts == {"", "text"}

----------------------------------------------------------------------------
(* config.ts *)

DelayMinutesChoices == {1}
RefreshMinutesChoices == {5}

loadConfig(delayMinutes, refreshMinutes) ==
  [ delayAfterMeetingMs |-> Sec(delayMinutes * 60 * 1000),
    calendarRefreshMs |-> Sec(refreshMinutes * 60 * 1000) ]

----------------------------------------------------------------------------
(* scheduler.ts: scheduleProcessing *)

FloorMs == Sec(30000)
RetryMs == Sec(2 * 60 * 1000)

NotSet == 0 - 1

\* setTimeout handle: the smallest id no live timer or callback holds
FreeId(ts) ==
  CHOOSE i \in 1..(Cardinality(ts) + 1) :
     /\ i \notin {t.id : t \in ts}
     /\ \A j \in 1..(i - 1) : j \in {t.id : t \in ts}

effectiveDelay(event, cfg, clock) ==
  Max(event.end + cfg.delayAfterMeetingMs - clock, FloorMs)

\* setTimeout and setInterval of Node: a delay that is not in 1..2^31-1
\* milliseconds is set to 1 millisecond
TIMEOUT_MAX == Sec(2147483647)

setTimeout(delay) == IF delay >= 1 /\ delay <= TIMEOUT_MAX THEN delay ELSE Sec(1)

\* scheduleProcessing without the test of line 27
scheduleProcessing_noTrackedCheck(st, event, attempt, cfg, clock, ids) ==
  IF isProcessed(ids, event.id)
  THEN [st EXCEPT !.arms = Append(@, [id |-> event.id, end |-> event.end, branch |-> "processed"])]
  ELSE [ tracked |-> st.tracked \cup {event.id},
         timers |-> st.timers \cup
           { [ id |-> FreeId(st.timers), kind |-> "fire", event |-> event,
               armedAt |-> clock,
               fireAt |-> clock + setTimeout(effectiveDelay(event, cfg, clock)),
               pc |-> "pending", stale |-> FALSE, attempt |-> attempt,
               doc |-> "none" ] },
         arms |-> Append(st.arms, [id |-> event.id, end |-> event.end, branch |-> "armed"]) ]

\* scheduleProcessing without the test of lines 28-31
scheduleProcessing_noDedupCheck(st, event, attempt, cfg, clock, ids) ==
  IF event.id \in st.tracked
  THEN [st EXCEPT !.arms = Append(@, [id |-> event.id, end |-> event.end, branch |-> "tracked"])]
  ELSE [ tracked |-> st.tracked \cup {event.id},
         timers |-> st.timers \cup
           { [ id |-> FreeId(st.timers), kind |-> "fire", event |-> event,
               armedAt |-> clock,
               fireAt |-> clock + setTimeout(effectiveDelay(event, cfg, clock)),
               pc |-> "pending", stale |-> FALSE, attempt |-> attempt,
               doc |-> "none" ] },
         arms |-> Append(st.arms, [id |-> event.id, end |-> event.end, branch |-> "armed"]) ]

\* st is the scheduler's memory, [tracked: scheduledEventIds, timers: timers],
\* with arms, the branch each call took. attempt counts the retries that led
\* to the call (history: the code keeps no such counter).
scheduleProcessing(st, event, attempt, cfg, clock, ids) ==
  IF event.id \in st.tracked
  THEN [st EXCEPT !.arms = Append(@, [id |-> event.id, end |-> event.end, branch |-> "tracked"])]
  ELSE IF isProcessed(ids, event.id)
  THEN [st EXCEPT !.arms = Append(@, [id |-> event.id, end |-> event.end, branch |-> "processed"])]
  ELSE [ tracked |-> st.tracked \cup {event.id},
         timers |-> st.timers \cup
           { [ id |-> FreeId(st.timers), kind |-> "fire", event |-> event,
               armedAt |-> clock,
               fireAt |-> clock + setTimeout(effectiveDelay(event, cfg, clock)),
               pc |-> "pending", stale |-> FALSE, attempt |-> attempt,
               doc |-> "none" ] },
         arms |-> Append(st.arms, [id |-> event.id, end |-> event.end, branch |-> "armed"]) ]

\* the for loop of refreshSchedule
RECURSIVE ArmAll(_, _, _, _, _, _)
ArmAll(st, events, i, cfg, clock, ids) ==
  IF i > Len(events) THEN st
  ELSE ArmAll(scheduleProcessing(st, events[i], 0, cfg, clock, ids),
              events, i + 1, cfg, clock, ids)

\* result is the outcome of fetchTodaysEvents
refreshSchedule(st, result, cfg, clock, ids) ==
  IF result.threw THEN st
  ELSE IF Len(result.events) = 0 THEN st
  ELSE ArmAll(st, result.events, 1, cfg, clock, ids)

Memory == [tracked |-> scheduledEventIds, timers |-> timers, arms |-> <<>>]

Bump(f, d) == [f EXCEPT ![d] = IF @ < MaxRuns THEN @ + 1 ELSE @]

\* the record of a step
Did(op, event, doc, arms) == [op |-> op, event |-> event, doc |-> doc, arms |-> arms]

\* the step in which fetchDocuments resolved, with the list it resolved to
DidMatch(op, event, doc, docs) ==
  [op |-> op, event |-> event, doc |-> doc, arms |-> <<>>, docs |-> docs]

\* the step in which fetchMeeting resolved, with what it resolved to
DidFetch(op, event, doc, notesMarkdown, transcript) ==
  [op |-> op, event |-> event, doc |-> doc, arms |-> <<>>,
   notesMarkdown |-> notesMarkdown, transcript |-> transcript]

\* the event ids for which a list of scheduleProcessing calls set a timer
ArmedNow(arms) == {arms[i].id : i \in {j \in 1..Len(arms) : arms[j].branch = "armed"}}

\* released after the calls that armed the ids of armed: in a refresh
\* (byRefresh) or in a retry
Rearmed(rel, armed, byRefresh) ==
  [e \in DOMAIN rel |->
     IF e \notin armed THEN rel[e]
     ELSE IF byRefresh /\ rel[e] = "yes" THEN "rearmed" ELSE "no"]

\* inserted after markProcessed(meetingId) on the store ids
Pushed(ins, ids, meetingId) ==
  IF isProcessed(ids, meetingId) THEN ins ELSE Append(ins, meetingId)

NoCall == [fn |-> "none"]

\* runs counts the commands run so far (history, bounded by MaxCliRuns)
CliIdle(runs) == [cmd |-> "none", arg |-> <<>>, pc |-> "idle", doc |-> "none", runs |-> runs]

----------------------------------------------------------------------------
(* Initial state: the process has been launched with a valid environment, *)
(* main has not yet run its first refresh.                                *)

Init ==
  /\ now = 0
  /\ config \in {loadConfig(d, r) : d \in DelayMinutesChoices, r \in RefreshMinutesChoices}
  /\ scheduledEventIds = {}
  /\ processedIds = <<>>
  /\ timers = {}
  /\ intervalAt = NotSet
  /\ cli = CliIdle(0)
  /\ pipelineDone = [d \in DocIds |-> 0]
  /\ failed = FALSE
  /\ step = Did("launch", "none", "none", <<>>)
  /\ released = [e \in EventIds |-> "no"]
  /\ inserted = <<>>
  /\ call = NoCall

\* main: the initial refreshSchedule, then setInterval
Main(result) ==
  /\ intervalAt = NotSet
  /\ LET st == refreshSchedule(Memory, result, config, now, processedIds)
     IN /\ Cardinality(st.timers) <= MaxTasks
        /\ scheduledEventIds' = st.tracked
        /\ timers' = st.timers
        /\ step' = Did(IF result.threw THEN "refreshFailed" ELSE "refresh",
                       "none", "none", st.arms)
        /\ released' = Rearmed(released, ArmedNow(st.arms), TRUE)
  /\ intervalAt' = now + setTimeout(config.calendarRefreshMs)
  /\ failed' = (failed \/ result.threw)
  /\ UNCHANGED <<now, config, processedIds, cli, pipelineDone, inserted, call>>

\* the setInterval callback
RefreshTick(result) ==
  /\ intervalAt # NotSet
  /\ now >= intervalAt
  /\ LET st == refreshSchedule(Memory, result, config, now, processedIds)
     IN /\ Cardinality(st.timers) <= MaxTasks
        /\ scheduledEventIds' = st.tracked
        /\ timers' = st.timers
        /\ step' = Did(IF result.threw THEN "refreshFailed" ELSE "refresh",
                       "none", "none", st.arms)
        /\ released' = Rearmed(released, ArmedNow(st.arms), TRUE)
  /\ intervalAt' = intervalAt + setTimeout(config.calendarRefreshMs)
  /\ failed' = (failed \/ result.threw)
  /\ UNCHANGED <<now, config, processedIds, cli, pipelineDone, inserted, call>>

\* the timer of scheduleProcessing elapses: the callback starts and is
\* suspended at granola.fetchDocuments. stale (history) records whether the
\* event was untracked or already processed at that instant.
Fire(t) ==
  /\ t \in timers
  /\ t.kind = "fire" /\ t.pc = "pending"
  /\ now >= t.fireAt
  /\ timers' = (timers \ {t}) \cup
       { [t EXCEPT !.pc = "fetchDocuments",
                   !.stale = (t.event.id \notin scheduledEventIds
                              \/ isProcessed(processedIds, t.event.id))] }
  /\ step' = Did("fire", t.event.id, "none", <<>>)
  /\ UNCHANGED <<now, config, scheduledEventIds, processedIds, intervalAt,
                 cli, pipelineDone, failed>>
  /\ UNCHANGED <<released, inserted, call>>

\* the callback whose no-match branch lacks scheduledEventIds.delete
FetchDocumentsReturns_keepsTracked(t, docs) ==
  /\ t \in timers
  /\ t.pc = "fetchDocuments"
  /\ LET matchingDoc == findMatchingDoc(docs, t.event)
     IN IF matchingDoc = NoDoc
        THEN /\ scheduledEventIds' = scheduledEventIds
             /\ timers' = timers \ {t}
             /\ step' = DidMatch("noMatch", t.event.id, "none", docs)
             /\ released' = [released EXCEPT ![t.event.id] = "yes"]
             /\ UNCHANGED <<processedIds, inserted>>
        ELSE IF isProcessed(processedIds, matchingDoc.id)
        THEN /\ processedIds' = markProcessed(processedIds, t.event.id)
             /\ timers' = timers \ {t}
             /\ inserted' = Pushed(inserted, processedIds, t.event.id)
             /\ step' = DidMatch("docAlreadyProcessed", t.event.id, matchingDoc.id, docs)
             /\ UNCHANGED <<scheduledEventIds, released>>
        ELSE /\ timers' = (timers \ {t}) \cup
                  { [t EXCEPT !.pc = "fetchMeeting", !.doc = matchingDoc.id] }
             /\ step' = DidMatch("matched", t.event.id, matchingDoc.id, docs)
             /\ UNCHANGED <<scheduledEventIds, processedIds, released, inserted>>
  /\ UNCHANGED <<now, config, intervalAt, cli, pipelineDone, failed, call>>

\* the callback without the isProcessed(matchingDoc.id) test of lines 64-68
FetchDocumentsReturns_noDocCheck(t, docs) ==
  /\ t \in timers
  /\ t.pc = "fetchDocuments"
  /\ LET matchingDoc == findMatchingDoc(docs, t.event)
     IN IF matchingDoc = NoDoc
        THEN /\ scheduledEventIds' = scheduledEventIds \ {t.event.id}
             /\ timers' = timers \ {t}
             /\ step' = DidMatch("noMatch", t.event.id, "none", docs)
             /\ released' = [released EXCEPT ![t.event.id] = "yes"]
             /\ UNCHANGED <<processedIds, inserted>>
        ELSE IF FALSE
        THEN /\ processedIds' = markProcessed(processedIds, t.event.id)
             /\ timers' = timers \ {t}
             /\ inserted' = Pushed(inserted, processedIds, t.event.id)
             /\ step' = DidMatch("docAlreadyProcessed", t.event.id, matchingDoc.id, docs)
             /\ UNCHANGED <<scheduledEventIds, released>>
        ELSE /\ timers' = (timers \ {t}) \cup
                  { [t EXCEPT !.pc = "fetchMeeting", !.doc = matchingDoc.id] }
             /\ step' = DidMatch("matched", t.event.id, matchingDoc.id, docs)
             /\ UNCHANGED <<scheduledEventIds, processedIds, released, inserted>>
  /\ UNCHANGED <<now, config, intervalAt, cli, pipelineDone, failed, call>>

\* fetchDocuments resolves; the callback runs up to its next await
FetchDocumentsReturns(t, docs) ==
  /\ t \in timers
  /\ t.pc = "fetchDocuments"
  /\ LET matchingDoc == findMatchingDoc(docs, t.event)
     IN IF matchingDoc = NoDoc
        THEN /\ scheduledEventIds' = scheduledEventIds \ {t.event.id}
             /\ timers' = timers \ {t}
             /\ step' = DidMatch("noMatch", t.event.id, "none", docs)
             /\ released' = [released EXCEPT ![t.event.id] = "yes"]
             /\ UNCHANGED <<processedIds, inserted>>
        ELSE IF isProcessed(processedIds, matchingDoc.id)
        THEN /\ processedIds' = markProcessed(processedIds, t.event.id)
             /\ timers' = timers \ {t}
             /\ inserted' = Pushed(inserted, processedIds, t.event.id)
             /\ step' = DidMatch("docAlreadyProcessed", t.event.id, matchingDoc.id, docs)
             /\ UNCHANGED <<scheduledEventIds, released>>
        ELSE /\ timers' = (timers \ {t}) \cup
                  { [t EXCEPT !.pc = "fetchMeeting", !.doc = matchingDoc.id] }
             /\ step' = DidMatch("matched", t.event.id, matchingDoc.id, docs)
             /\ UNCHANGED <<scheduledEventIds, processedIds, released, inserted>>
  /\ UNCHANGED <<now, config, intervalAt, cli, pipelineDone, failed, call>>

\* the readiness test with || for &&: ready only with notes and transcript
FetchMeetingReturns_needsBoth(t, notesMarkdown, transcript) ==
  /\ t \in timers
  /\ t.pc = "fetchMeeting"
  /\ IF notesMarkdown = "" \/ transcript = ""
     THEN /\ scheduledEventIds' = scheduledEventIds \ {t.event.id}
          /\ timers' = (timers \ {t}) \cup
               { [t EXCEPT !.kind = "retry", !.pc = "pending", !.armedAt = now,
                           !.fireAt = now + setTimeout(RetryMs), !.stale = FALSE] }
          /\ step' = DidFetch("notReady", t.event.id, t.doc, notesMarkdown, transcript)
     ELSE /\ timers' = (timers \ {t}) \cup {[t EXCEPT !.pc = "processMeeting"]}
          /\ step' = DidFetch("invoke", t.event.id, t.doc, notesMarkdown, transcript)
          /\ UNCHANGED scheduledEventIds
  /\ UNCHANGED <<now, config, processedIds, intervalAt, cli, pipelineDone, failed>>
  /\ UNCHANGED <<released, inserted, call>>

\* fetchMeeting resolves with the notes of the document's last viewed panel
\* and its transcript: not ready (retry timer) or processMeeting is called
FetchMeetingReturns(t, notesMarkdown, transcript) ==
  /\ t \in timers
  /\ t.pc = "fetchMeeting"
  /\ IF notesMarkdown = "" /\ transcript = ""
     THEN /\ scheduledEventIds' = scheduledEventIds \ {t.event.id}
          /\ timers' = (timers \ {t}) \cup
               { [t EXCEPT !.kind = "retry", !.pc = "pending", !.armedAt = now,
                           !.fireAt = now + setTimeout(RetryMs), !.stale = FALSE] }
          /\ step' = DidFetch("notReady", t.event.id, t.doc, notesMarkdown, transcript)
     ELSE /\ timers' = (timers \ {t}) \cup {[t EXCEPT !.pc = "processMeeting"]}
          /\ step' = DidFetch("invoke", t.event.id, t.doc, notesMarkdown, transcript)
          /\ UNCHANGED scheduledEventIds
  /\ UNCHANGED <<now, config, processedIds, intervalAt, cli, pipelineDone, failed>>
  /\ UNCHANGED <<released, inserted, call>>

\* the success path without markProcessed(event.id)
ProcessMeetingReturns_marksDocOnly(t) ==
  /\ t \in timers
  /\ t.pc = "processMeeting"
  /\ processedIds' = markProcessed(processedIds, t.doc)
  /\ inserted' = Pushed(inserted, processedIds, t.doc)
  /\ pipelineDone' = Bump(pipelineDone, t.doc)
  /\ timers' = timers \ {t}
  /\ step' = Did("success", t.event.id, t.doc, <<>>)
  /\ UNCHANGED <<now, config, scheduledEventIds, intervalAt, cli, failed,
                 released, call>>

\* processMeeting resolves: both ids are marked processed
ProcessMeetingReturns(t) ==
  /\ t \in timers
  /\ t.pc = "processMeeting"
  /\ processedIds' = markProcessed(markProcessed(processedIds, t.event.id), t.doc)
  /\ inserted' = Pushed(Pushed(inserted, processedIds, t.event.id),
                        markProcessed(processedIds, t.event.id), t.doc)
  /\ pipelineDone' = Bump(pipelineDone, t.doc)
  /\ timers' = timers \ {t}
  /\ step' = Did("success", t.event.id, t.doc, <<>>)
  /\ UNCHANGED <<now, config, scheduledEventIds, intervalAt, cli, failed,
                 released, call>>

\* the catch block without its scheduledEventIds.delete
Catch_keepsTracked(t) ==
  /\ t \in timers
  /\ t.pc \in {"fetchDocuments", "fetchMeeting", "processMeeting"}
  /\ timers' = timers \ {t}
  /\ failed' = TRUE
  /\ step' = Did("catch", t.event.id, t.doc, <<>>)
  /\ UNCHANGED <<now, config, scheduledEventIds, processedIds, intervalAt, cli,
                 pipelineDone>>
  /\ UNCHANGED <<released, inserted, call>>

\* the callback without try/catch: the rejection is unhandled and Node exits
Catch_exits(t) ==
  /\ t \in timers
  /\ t.pc \in {"fetchDocuments", "fetchMeeting", "processMeeting"}
  /\ scheduledEventIds' = {}
  /\ timers' = {}
  /\ intervalAt' = NotSet
  /\ failed' = TRUE
  /\ step' = Did("catch", t.event.id, t.doc, <<>>)
  /\ UNCHANGED <<now, config, processedIds, cli, pipelineDone>>
  /\ UNCHANGED <<released, inserted, call>>

\* the catch block that also marks the event processed
Catch_marks(t) ==
  /\ t \in timers
  /\ t.pc \in {"fetchDocuments", "fetchMeeting", "processMeeting"}
  /\ scheduledEventIds' = scheduledEventIds \ {t.event.id}
  /\ processedIds' = markProcessed(processedIds, t.event.id)
  /\ inserted' = Pushed(inserted, processedIds, t.event.id)
  /\ timers' = timers \ {t}
  /\ failed' = TRUE
  /\ step' = Did("catch", t.event.id, t.doc, <<>>)
  /\ UNCHANGED <<now, config, intervalAt, cli, pipelineDone, released, call>>

\* fetchDocuments, fetchMeeting or processMeeting rejects: the catch block
Catch(t) ==
  /\ t \in timers
  /\ t.pc \in {"fetchDocuments", "fetchMeeting", "processMeeting"}
  /\ scheduledEventIds' = scheduledEventIds \ {t.event.id}
  /\ timers' = timers \ {t}
  /\ failed' = TRUE
  /\ step' = Did("catch", t.event.id, t.doc, <<>>)
  /\ UNCHANGED <<now, config, processedIds, intervalAt, cli, pipelineDone>>
  /\ UNCHANGED <<released, inserted, call>>

\* the retry that leaves the event's end time as it was
Retry_keepsEnd(t) ==
  /\ t \in timers
  /\ t.kind = "retry" /\ t.pc = "pending"
  /\ now >= t.fireAt
  /\ LET st == scheduleProcessing(
                 [tracked |-> scheduledEventIds \ {t.event.id},
                  timers |-> timers \ {t}, arms |-> <<>>],
                 t.event, t.attempt + 1,
                 config, now, processedIds)
     IN /\ scheduledEventIds' = st.tracked
        /\ timers' = st.timers
        /\ step' = Did("retry", t.event.id, "none", st.arms)
        /\ released' = Rearmed(released, ArmedNow(st.arms), FALSE)
  /\ UNCHANGED <<now, config, processedIds, intervalAt, cli, pipelineDone, failed,
                 inserted, call>>

\* the retry that goes on with the document of the attempt before
Retry_reusesDoc(t) ==
  /\ t \in timers
  /\ t.kind = "retry" /\ t.pc = "pending"
  /\ now >= t.fireAt
  /\ scheduledEventIds' = scheduledEventIds \cup {t.event.id}
  /\ timers' = (timers \ {t}) \cup
       { [t EXCEPT !.kind = "fire", !.pc = "fetchMeeting", !.armedAt = now,
                   !.fireAt = now, !.attempt = t.attempt + 1] }
  /\ step' = Did("retry", t.event.id, t.doc, <<[id |-> t.event.id, end |-> now, branch |-> "armed"]>>)
  /\ released' = Rearmed(released, {t.event.id}, FALSE)
  /\ UNCHANGED <<now, config, processedIds, intervalAt, cli, pipelineDone, failed,
                 inserted, call>>

\* the retry timer elapses: the callback of lines 77-83 has the first
\* attempt's matchingDoc in scope (t.doc) and does not use it
Retry(t) ==
  /\ t \in timers
  /\ t.kind = "retry" /\ t.pc = "pending"
  /\ now >= t.fireAt
  /\ LET st == scheduleProcessing(
                 [tracked |-> scheduledEventIds \ {t.event.id},
                  timers |-> timers \ {t}, arms |-> <<>>],
                 [t.event EXCEPT !.end = now], t.attempt + 1,
                 config, now, processedIds)
     IN /\ scheduledEventIds' = st.tracked
        /\ timers' = st.timers
        /\ step' = Did("retry", t.event.id, "none", st.arms)
        /\ released' = Rearmed(released, ArmedNow(st.arms), FALSE)
  /\ UNCHANGED <<now, config, processedIds, intervalAt, cli, pipelineDone, failed,
                 inserted, call>>

\* Time passes. Node runs a due timer before the clock moves on.
AdvanceTo(limit) ==
  /\ now + Tick <= limit
  /\ intervalAt # NotSet /\ intervalAt > now
  /\ \A t \in timers : t.pc = "pending" => t.fireAt > now
  /\ now' = now + Tick
  /\ step' = Did("advance", "none", "none", <<>>)
  /\ UNCHANGED <<config, scheduledEventIds, processedIds, timers, intervalAt,
                 cli, pipelineDone, failed>>
  /\ UNCHANGED <<released, inserted, call>>

\* The process is killed and launched again (launchd KeepAlive): memory is
\* lost, the state file stays.
Restart ==
  /\ intervalAt # NotSet
  /\ scheduledEventIds' = {}
  /\ timers' = {}
  /\ intervalAt' = NotSet
  /\ failed' = FALSE
  /\ step' = Did("launch", "none", "none", <<>>)
  /\ released' = [e \in EventIds |-> "no"]
  /\ UNCHANGED <<now, config, processedIds, cli, pipelineDone, inserted, call>>

Advance == AdvanceTo(MaxNow)

Next ==
  \/ \E result \in FetchOutcomes : Main(result)
  \/ \E result \in FetchOutcomes : RefreshTick(result)
  \/ \E t \in timers : Fire(t)
  \/ \E t \in timers, docs \in DocumentLists : FetchDocumentsReturns(t, docs)
  \/ \E t \in timers, notesMarkdown \in Texts, transcript \in Texts :
        FetchMeetingReturns(t, notesMarkdown, transcript)
  \/ \E t \in timers : ProcessMeetingReturns(t)
  \/ \E t \in timers : Catch(t)
  \/ \E t \in timers : Retry(t)
  \/ Advance
  \/ Restart

Spec == Init /\ [][Next]_vars

----------------------------------------------------------------------------
(* cli.ts: the manual commands, run in a process of their own *)

CliCommands == {"list", "latest", "processId", "processTitle"}

\* process --id <id>, and process <title...>
IdArgs == {"d1", "d9"}
TitleArgs == {<<"S">>, <<"r">>}

Find(s, P(_)) == LET found == SelectSeq(s, P) IN IF found = <<>> THEN NoDoc ELSE found[1]

CliStart(cmd, arg) ==
  /\ cli.pc = "idle"
  /\ cli.runs < MaxCliRuns
  /\ cmd \in CliCommands
  /\ cli' = [cmd |-> cmd, pc |-> "fetchDocuments", doc |-> "none",
             arg |-> IF cmd = "processTitle" THEN toLowerCase(arg) ELSE arg,
             runs |-> cli.runs + 1]
  /\ step' = Did("cliStart", "none", "none", <<>>)
  /\ UNCHANGED <<now, config, scheduledEventIds, processedIds, timers, intervalAt,
                 pipelineDone, failed>>
  /\ UNCHANGED <<released, inserted, call>>

CliReset ==
  /\ cli.pc = "idle"
  /\ cli.runs < MaxCliRuns
  /\ processedIds' = resetState
  /\ cli' = CliIdle(cli.runs + 1)
  /\ inserted' = <<>>
  /\ step' = Did("cliReset", "none", "none", <<>>)
  /\ UNCHANGED <<now, config, scheduledEventIds, timers, intervalAt,
                 pipelineDone, failed, released, call>>

\* fetchDocuments resolves: the command picks its document and calls fetchMeeting
CliFetchDocumentsReturns(docs) ==
  /\ cli.pc = "fetchDocuments"
  /\ cli.cmd = "latest" => Len(docs) <= 1
  /\ LET ById(d) == d.id = cli.arg
         ByTitle(d) == includes(toLowerCase(d.title), cli.arg)
         doc == CASE cli.cmd = "list" -> NoDoc
                  [] cli.cmd = "latest" -> IF Len(docs) = 0 THEN NoDoc ELSE docs[1]
                  [] cli.cmd = "processId" -> Find(docs, ById)
                  [] cli.cmd = "processTitle" -> Find(docs, ByTitle)
     IN IF doc = NoDoc
        THEN cli' = CliIdle(cli.runs)
        ELSE cli' = [cli EXCEPT !.pc = "fetchMeeting", !.doc = doc.id]
  /\ step' = Did("cliDocuments", "none", "none", <<>>)
  /\ UNCHANGED <<now, config, scheduledEventIds, processedIds, timers, intervalAt,
                 pipelineDone, failed>>
  /\ UNCHANGED <<released, inserted, call>>

\* fetchMeeting resolves: latest and process --id test isProcessed, then
\* processMeeting is called
CliFetchMeetingReturns ==
  /\ cli.pc = "fetchMeeting"
  /\ IF cli.cmd \in {"latest", "processId"} /\ isProcessed(processedIds, cli.doc)
     THEN /\ cli' = CliIdle(cli.runs)
          /\ step' = Did("cliAlreadyProcessed", "none", cli.doc, <<>>)
     ELSE /\ cli' = [cli EXCEPT !.pc = "processMeeting"]
          /\ step' = Did("cliInvoke", "none", cli.doc, <<>>)
  /\ UNCHANGED <<now, config, scheduledEventIds, processedIds, timers, intervalAt,
                 pipelineDone, failed>>
  /\ UNCHANGED <<released, inserted, call>>

CliProcessMeetingReturns ==
  /\ cli.pc = "processMeeting"
  /\ processedIds' = markProcessed(processedIds, cli.doc)
  /\ cli' = CliIdle(cli.runs)
  /\ inserted' = Pushed(inserted, processedIds, cli.doc)
  /\ step' = Did("cliSuccess", "none", cli.doc, <<>>)
  /\ UNCHANGED <<now, config, scheduledEventIds, timers, intervalAt,
                 pipelineDone, failed, released, call>>

\* an awaited call rejects: main().catch, process.exit(1)
CliFails ==
  /\ cli.pc \in {"fetchDocuments", "fetchMeeting", "processMeeting"}
  /\ cli' = CliIdle(cli.runs)
  /\ step' = Did("cliFatal", "none", cli.doc, <<>>)
  /\ UNCHANGED <<now, config, scheduledEventIds, processedIds, timers, intervalAt,
                 pipelineDone, failed>>
  /\ UNCHANGED <<released, inserted, call>>

AdvanceCli == AdvanceTo(MaxNowCli)

\* one launch of the scheduler with the CLI run beside it
NextCli ==
  \/ \E result \in FetchOutcomes : Main(result)
  \/ \E result \in FetchOutcomes : RefreshTick(result)
  \/ \E t \in timers : Fire(t)
  \/ \E t \in timers, docs \in DocumentLists : FetchDocumentsReturns(t, docs)
  \/ \E t \in timers, notesMarkdown \in Texts, transcript \in Texts :
        FetchMeetingReturns(t, notesMarkdown, transcript)
  \/ \E t \in timers : ProcessMeetingReturns(t)
  \/ \E t \in timers : Catch(t)
  \/ \E t \in timers : Retry(t)
  \/ AdvanceCli
  \/ \E cmd \in {"list", "latest"} : CliStart(cmd, <<>>)
  \/ \E arg \in IdArgs : CliStart("processId", arg)
  \/ \E arg \in TitleArgs : CliStart("processTitle", arg)
  \/ CliReset
  \/ \E docs \in DocumentLists : CliFetchDocumentsReturns(docs)
  \/ CliFetchMeetingReturns
  \/ CliProcessMeetingReturns
  \/ CliFails

SpecCli == Init /\ [][NextCli]_vars

----------------------------------------------------------------------------
(* findMatchingDoc on its own: any short list of candidates around an event *)

\* titles that fold to the event's title, contain it, are contained in it,
\* or have nothing in common with it
MatchTitles == {<<"s", "p">>, <<" ", "S", "P", "R">>, <<"P">>, <<"R">>}

\* created_at - event.start, in seconds: on, inside and outside the two windows
MatchOffsets == {0 - 7200, 0 - 1800, 0 - 600, 600, 1200, 1799, 7199}

MatchEvents ==
  { [id |-> "e1", summary |-> <<"S", "p", " ">>, start |-> 600, end |-> 2400] }

DocNames == <<"d1", "d2", "d3", "d4">>

\* the lists fetchDocuments can return, each document with an id of its own
MatchLists ==
  UNION { { [i \in 1..n |-> [id |-> DocNames[i], title |-> f[i][1],
                              created_at |-> 600 + f[i][2]]]
              : f \in [1..n -> MatchTitles \X MatchOffsets] }
          : n \in 0..MaxDocs }

\* one call per run: the function keeps nothing from one call to the next
FindMatchingDoc(docs, event) ==
  /\ call = NoCall
  /\ call' = [fn |-> "findMatchingDoc", docs |-> docs, event |-> event,
              result |-> findMatchingDoc(docs, event)]
  /\ UNCHANGED <<now, config, scheduledEventIds, processedIds, timers, intervalAt,
                 cli, pipelineDone, failed, step, released, inserted>>

NextMatch == \E docs \in MatchLists, event \in MatchEvents : FindMatchingDoc(docs, event)

SpecMatch == Init /\ [][NextMatch]_vars

----------------------------------------------------------------------------
(* state.ts on its own: a state file left by earlier runs, then any calls *)

\* how many ids the state file holds at the start
StoreFills == {0, StateCap - 1, StateCap}

Fill(n) == [i \in 1..n |-> i]

\* ids of the file's oldest entries, and ids it has never held
StoreIds == {1, 2, StateCap + 1, StateCap + 2, StateCap + 3}

InitStore ==
  /\ now = 0
  /\ config \in {loadConfig(d, r) : d \in DelayMinutesChoices, r \in RefreshMinutesChoices}
  /\ scheduledEventIds = {}
  /\ processedIds \in {Fill(n) : n \in StoreFills}
  /\ timers = {}
  /\ intervalAt = NotSet
  /\ cli = CliIdle(0)
  /\ pipelineDone = [d \in DocIds |-> 0]
  /\ failed = FALSE
  /\ step = Did("launch", "none", "none", <<>>)
  /\ released = [e \in EventIds |-> "no"]
  /\ inserted = processedIds
  /\ call = NoCall

Calls == IF call = NoCall THEN 0 ELSE call.n

MarkProcessed(meetingId) ==
  /\ Calls < MaxMarks
  /\ processedIds' = markProcessed(processedIds, meetingId)
  /\ inserted' = Pushed(inserted, processedIds, meetingId)
  /\ call' = [fn |-> "markProcessed", meetingId |-> meetingId,
              wasProcessed |-> isProcessed(processedIds, meetingId), n |-> Calls + 1]
  /\ UNCHANGED <<now, config, scheduledEventIds, timers, intervalAt, cli,
                 pipelineDone, failed, step, released>>

ResetState ==
  /\ Calls < MaxMarks
  /\ processedIds' = resetState
  /\ inserted' = <<>>
  /\ call' = [fn |-> "resetState", meetingId |-> 0, wasProcessed |-> FALSE,
              n |-> Calls + 1]
  /\ UNCHANGED <<now, config, scheduledEventIds, timers, intervalAt, cli,
                 pipelineDone, failed, step, released>>

NextStore ==
  \/ \E meetingId \in StoreIds : MarkProcessed(meetingId)
  \/ ResetState

SpecStore == InitStore /\ [][NextStore]_vars

----------------------------------------------------------------------------
(* state.ts, its reads and writes of the state file taken one by one: two    *)
(* timer callbacks of the scheduler process and a CLI process, each calling  *)
(* markProcessed once. A call has no await, so the calls of one process do   *)
(* not overlap; the two processes share nothing but the file.                *)

Callers == {"fire1", "fire2", "cli"}

ProcessOf(c) == IF c = "cli" THEN "cli" ELSE "scheduler"

MarkIds == {"e1", "e2", "d1", "d2"}

\* what the state file holds at the start
FileFills == {<<>>, <<"d2">>}

Waiting == [pc |-> "idle", meetingId |-> "none", state |-> <<>>]

InitFile ==
  /\ now = 0
  /\ config \in {loadConfig(d, r) : d \in DelayMinutesChoices, r \in RefreshMinutesChoices}
  /\ scheduledEventIds = {}
  /\ processedIds \in FileFills
  /\ timers = {}
  /\ intervalAt = NotSet
  /\ cli = CliIdle(0)
  /\ pipelineDone = [d \in DocIds |-> 0]
  /\ failed = FALSE
  /\ step = Did("launch", "none", "none", <<>>)
  /\ released = [e \in EventIds |-> "no"]
  /\ inserted = processedIds
  /\ call = [fn |-> "markProcessed", who |-> [c \in Callers |-> Waiting]]

\* lines 36-42: readState, and the push on the state that was read; a call
\* for an id that is in the list returns here
ReadState(c, meetingId) ==
  /\ call.who[c].pc = "idle"
  /\ \A o \in Callers \ {c} :
        ProcessOf(o) = ProcessOf(c) => call.who[o].pc # "read"
  /\ call' = [call EXCEPT !.who[c] =
                IF isProcessed(processedIds, meetingId)
                THEN [pc |-> "returned", meetingId |-> meetingId, state |-> <<>>]
                ELSE [pc |-> "read", meetingId |-> meetingId,
                      state |-> markProcessed(processedIds, meetingId)]]
  /\ UNCHANGED <<now, config, scheduledEventIds, processedIds, timers, intervalAt,
                 cli, pipelineDone, failed, step, released, inserted>>

\* line 44: writeState
WriteState(c) ==
  /\ call.who[c].pc = "read"
  /\ processedIds' = call.who[c].state
  /\ inserted' = Append(inserted, call.who[c].meetingId)
  /\ call' = [call EXCEPT !.who[c].pc = "returned", !.who[c].state = <<>>]
  /\ UNCHANGED <<now, config, scheduledEventIds, timers, intervalAt,
                 cli, pipelineDone, failed, step, released>>

NextFile ==
  \/ \E c \in Callers, meetingId \in MarkIds : ReadState(c, meetingId)
  \/ \E c \in Callers : WriteState(c)

SpecFile == InitFile /\ [][NextFile]_vars

----------------------------------------------------------------------------
(* state.ts: readState and isProcessed on whatever the state file holds *)

FileIds == {"e1", "e2", "d1"}

IdLists == UNION {[1..n -> FileIds] : n \in 0..MaxFileIds}

\* the values JSON.parse can give for the field processedIds: absent, null,
\* a string (text: the ids it is made of), an array
FieldValues ==
  {[type |-> "undefined"], [type |-> "null"]}
  \cup {[type |-> "string", text |-> l] : l \in IdLists}
  \cup {[type |-> "array", items |-> l] : l \in IdLists}

\* the values JSON.parse can give for the file: null, an array, an object
JsonValues ==
  {[type |-> "null"], [type |-> "array"]}
  \cup {[type |-> "object", processedIds |-> f] : f \in FieldValues}

\* the file: not there, there but not readable, not JSON (empty, cut short),
\* or JSON
StateFiles ==
  {[kind |-> "missing"], [kind |-> "unreadable"], [kind |-> "notJson"]}
  \cup {[kind |-> "json", value |-> v] : v \in JsonValues}

EmptyState == [type |-> "object", processedIds |-> [type |-> "array", items |-> <<>>]]

\* lines 14-24: existsSync, then readFileSync and JSON.parse inside try/catch
readState(file) ==
  IF file.kind = "json" THEN file.value ELSE EmptyState

TypeError == [threw |-> TRUE, value |-> FALSE]

\* lines 30-33: state.processedIds.includes(meetingId) on what readState
\* returned; includes is Array.prototype.includes or String.prototype.includes
isProcessedRead(file, meetingId) ==
  LET state == readState(file)
  IN IF state.type = "null" THEN TypeError
     ELSE IF state.type # "object" THEN TypeError
     ELSE CASE state.processedIds.type = "array" ->
                 [threw |-> FALSE, value |-> meetingId \in Range(state.processedIds.items)]
            [] state.processedIds.type = "string" ->
                 [threw |-> FALSE, value |-> meetingId \in Range(state.processedIds.text)]
            [] OTHER -> TypeError

IsProcessed(file, meetingId) ==
  /\ call = NoCall
  /\ call' = [fn |-> "isProcessed", file |-> file, meetingId |-> meetingId,
              result |-> isProcessedRead(file, meetingId)]
  /\ UNCHANGED <<now, config, scheduledEventIds, processedIds, timers, intervalAt,
                 cli, pipelineDone, failed, step, released, inserted>>

NextRead == \E file \in StateFiles, meetingId \in MarkIds : IsProcessed(file, meetingId)

SpecRead == Init /\ [][NextRead]_vars

----------------------------------------------------------------------------
(* calendar.ts: fetchTodaysEvents on whatever the calendar database does *)

\* parseRows(runQuery(..)): sqlite3 exits with an error, is killed at the
\* timeout of 5000 ms or prints what JSON.parse rejects (failed), or the rows
QueryOutcomes ==
  { [failed |-> TRUE, rows |-> <<>>] }
  \cup { [failed |-> FALSE, rows |-> s] : s \in CalendarResults }

\* fetchTodaysEvents whose inner try has no catch
fetchTodaysEvents_noFallbackCatch(dbFound, first, copied, second) ==
  IF ~dbFound THEN [threw |-> TRUE, events |-> <<>>]
  ELSE IF ~first.failed THEN [threw |-> FALSE, events |-> first.rows]
  ELSE IF copied /\ ~second.failed THEN [threw |-> FALSE, events |-> second.rows]
  ELSE [threw |-> TRUE, events |-> <<>>]

\* dbFound: getDbPath finds one of the two paths (line 83, before the try);
\* first: the query on the database (lines 111-112); copied: cp to the cache
\* file worked (line 117); second: the query on the copy (line 118)
fetchTodaysEvents(dbFound, first, copied, second) ==
  IF ~dbFound THEN [threw |-> TRUE, events |-> <<>>]
  ELSE IF ~first.failed THEN [threw |-> FALSE, events |-> first.rows]
  ELSE IF copied /\ ~second.failed THEN [threw |-> FALSE, events |-> second.rows]
  ELSE [threw |-> FALSE, events |-> <<>>]

FetchTodaysEvents(dbFound, first, copied, second) ==
  /\ call = NoCall
  /\ call' = [fn |-> "fetchTodaysEvents", dbFound |-> dbFound, first |-> first,
              copied |-> copied, second |-> second,
              result |-> fetchTodaysEvents(dbFound, first, copied, second)]
  /\ UNCHANGED <<now, config, scheduledEventIds, processedIds, timers, intervalAt,
                 cli, pipelineDone, failed, step, released, inserted>>

NextCalendar ==
  \E dbFound \in BOOLEAN, first \in QueryOutcomes, copied \in BOOLEAN,
     second \in QueryOutcomes :
     FetchTodaysEvents(dbFound, first, copied, second)

SpecCalendar == Init /\ [][NextCalendar]_vars

----------------------------------------------------------------------------
(* config.ts and scheduler.ts main: the start of the process, from an *)
(* environment that need not be valid                                 *)

Unset == [kind |-> "unset"]
NotANumber == [kind |-> "NaN"]
Num(n) == [kind |-> "number", value |-> n]

\* what Number(process.env.X) is for the two numeric variables, in minutes
DelayEnv == {Unset, NotANumber} \cup {Num(n) : n \in {0, 1, 2}}
RefreshEnv == {Unset, NotANumber} \cup {Num(n) : n \in {4, 5, 6}}

\* the required variables of lines 14-21 taken together: all present and
\* well-formed, one missing, one that fails its test (url, email, xoxb-)
CredentialEnv == {"ok", "missing", "malformed"}

ProcessEnvs ==
  [credentials : CredentialEnv, DELAY_AFTER_MEETING_MINUTES : DelayEnv,
   CALENDAR_REFRESH_MINUTES : RefreshEnv]

\* z.coerce.number().default(def) without .min(minimum)
coerceNumber_noMin(v, minimum, def) ==
  IF v.kind = "unset" THEN [success |-> TRUE, data |-> def]
  ELSE IF v.kind = "NaN" THEN [success |-> FALSE, data |-> 0]
  ELSE [success |-> TRUE, data |-> v.value]

\* z.coerce.number().min(minimum).default(def), lines 26 and 29
coerceNumber(v, minimum, def) ==
  IF v.kind = "unset" THEN [success |-> TRUE, data |-> def]
  ELSE IF v.kind = "NaN" THEN [success |-> FALSE, data |-> 0]
  ELSE IF v.value < minimum THEN [success |-> FALSE, data |-> v.value]
  ELSE [success |-> TRUE, data |-> v.value]

\* envSchema.safeParse(process.env)
safeParse(env) ==
  LET delay == coerceNumber(env.DELAY_AFTER_MEETING_MINUTES, 1, 5)
      refresh == coerceNumber(env.CALENDAR_REFRESH_MINUTES, 5, 30)
  IN [ success |-> env.credentials = "ok" /\ delay.success /\ refresh.success,
       data |-> [ DELAY_AFTER_MEETING_MINUTES |-> delay.data,
                  CALENDAR_REFRESH_MINUTES |-> refresh.data ] ]

NotLoaded == [delayAfterMeetingMs |-> NotSet, calendarRefreshMs |-> NotSet]

\* the process has been launched with the environment env, main is about to
\* call loadConfig
InitConfig ==
  /\ now = 0
  /\ config = NotLoaded
  /\ scheduledEventIds = {}
  /\ processedIds = <<>>
  /\ timers = {}
  /\ intervalAt = NotSet
  /\ cli = CliIdle(0)
  /\ pipelineDone = [d \in DocIds |-> 0]
  /\ failed = FALSE
  /\ step = Did("launch", "none", "none", <<>>)
  /\ released = [e \in EventIds |-> "no"]
  /\ inserted = <<>>
  /\ call \in {[fn |-> "main", pc |-> "loadConfig", env |-> env, code |-> 0] :
                 env \in ProcessEnvs}

\* main, line 172: loadConfig returns the configuration or ends the process
\* with process.exit(1)
LoadConfig ==
  /\ call.fn = "main" /\ call.pc = "loadConfig"
  /\ LET result == safeParse(call.env)
     IN IF ~result.success
        THEN /\ call' = [call EXCEPT !.pc = "exited", !.code = 1]
             /\ UNCHANGED config
        ELSE /\ call' = [call EXCEPT !.pc = "running"]
             /\ config' = loadConfig(result.data.DELAY_AFTER_MEETING_MINUTES,
                                     result.data.CALENDAR_REFRESH_MINUTES)
  /\ UNCHANGED <<now, scheduledEventIds, processedIds, timers, intervalAt, cli,
                 pipelineDone, failed, step, released, inserted>>

\* loadConfig has returned: main goes on, and its timers run
Loaded == call.fn = "main" /\ call.pc = "running"

NextConfig ==
  \/ LoadConfig
  \/ \E result \in FetchOutcomes : Loaded /\ Main(result)
  \/ \E result \in FetchOutcomes : Loaded /\ RefreshTick(result)
  \/ \E t \in timers : Loaded /\ Fire(t)
  \/ Loaded /\ Advance

SpecConfig == InitConfig /\ [][NextConfig]_vars

----------------------------------------------------------------------------
(* Properties *)

TasksOf(ts, e) == {t \in ts : t.event.id = e}

ArmedIds(s) == {s.arms[i].id : i \in 1..Len(s.arms)}

\* the fire timers a step created for event e
NewTimers(old, new, e) ==
  {t \in new \ old : t.event.id = e /\ t.kind = "fire" /\ t.pc = "pending"}

\* C1: for every notes-document id the pipeline completes at most once, over
\* any interleaving of fire callbacks, refreshes and restarts.
CE_C1 == \A d \in DocIds : pipelineDone[d] <= 1

\* C2: every calendar event id has at most one live task (pending fire
\* timer, callback in flight or pending retry timer).
CE_C2 == \A e \in EventIds : Cardinality(TasksOf(timers, e)) <= 1

Th_C4 ==
  [][ /\ step'.op = "refresh" =>
           \A e \in ArmedIds(step') :
              isProcessed(processedIds, e) =>
                 /\ TasksOf(timers', e) = TasksOf(timers, e)
                 /\ (e \in scheduledEventIds') = (e \in scheduledEventIds)
                 /\ processedIds' = processedIds
      /\ (step'.op = "retry" /\ isProcessed(processedIds, step'.event)) =>
              /\ NewTimers(timers, timers', step'.event) = {}
              /\ step'.event \notin scheduledEventIds'
              /\ processedIds' = processedIds ]_vars

\* after a relaunch, the refresh returned an event that is in the dedup store
\* and not tracked: it has no timer
W_C4 ==
  /\ step.op = "refresh"
  /\ \E i \in 1..Len(step.arms) :
        /\ step.arms[i].branch = "processed"
        /\ isProcessed(processedIds, step.arms[i].id)
        /\ step.arms[i].id \notin scheduledEventIds
        /\ TasksOf(timers, step.arms[i].id) = {}

\* C5: a not-ready document gets exactly one retry attempt: a retry timer is
\* only ever set by the first attempt, never by the retry attempt.
CE_C5 == \A t \in timers : t.kind = "retry" => t.attempt = 0

\* C6: the wait of every armed timer is max(event.end + delayAfterEnd - now,
\* 30 s): the callback starts neither before event.end + delayAfterEnd nor
\* sooner than 30 s after arming.
CE_C6 ==
  /\ [](\A t \in timers :
          t.kind = "fire" =>
             /\ t.fireAt >= t.event.end + config.delayAfterMeetingMs
             /\ t.fireAt >= t.armedAt + FloorMs
             /\ t.fireAt \in {t.event.end + config.delayAfterMeetingMs,
                              t.armedAt + FloorMs})
  /\ [][ \A t \in timers :
            (t.kind = "fire" /\ t.pc = "pending" /\ t \notin timers') =>
               \A u \in timers' :
                  (u.id = t.id /\ u.pc = "fetchDocuments") =>
                     /\ now' >= t.event.end + config.delayAfterMeetingMs
                     /\ now' >= t.armedAt + FloorMs ]_vars

\* C7: a callback that fires for an event that is no longer tracked, or that
\* is already in the dedup store, invokes no pipeline.
CE_C7 == \A t \in timers : t.stale => t.pc # "processMeeting"

\* C8: the pipeline is never invoked, by the scheduler or by a CLI command,
\* for a document id that is in the dedup store.
CE_C8 ==
  step.op \in {"invoke", "cliInvoke"} => ~isProcessed(processedIds, step.doc)

\* C9: when a fetch or the pipeline throws in a fire callback, the event id
\* leaves the tracked set, the dedup store is not changed, and the process
\* lives on: its other timers and its refresh interval stay.
Th_C9 ==
  [][ step'.op = "catch" =>
        /\ step'.event \notin scheduledEventIds'
        /\ processedIds' = processedIds
        /\ intervalAt' = intervalAt /\ intervalAt' # NotSet
        /\ timers' \subseteq timers
        /\ Cardinality(timers \ timers') = 1 ]_vars

\* the pipeline (or the content fetch) of a matched document has thrown
W_C9 ==
  /\ step.op = "catch"
  /\ step.doc \in DocIds
  /\ step.event \notin scheduledEventIds
  /\ ~isProcessed(processedIds, step.event)
  /\ ~isProcessed(processedIds, step.doc)

\* C10: after a failure in a fire callback or a failed refresh the refresh
\* loop keeps running: the interval stays set, its next tick is never more
\* than one period away, and a later refresh arms every returned event that is neither tracked nor
\* processed.
Th_C10 ==
  /\ [](intervalAt # NotSet => intervalAt <= now + config.calendarRefreshMs)
  /\ [][ /\ (intervalAt # NotSet /\ step'.op # "launch") => intervalAt' # NotSet
         /\ (failed /\ step'.op = "refresh") =>
              \A e \in ArmedIds(step') :
                 (e \notin scheduledEventIds /\ ~isProcessed(processedIds, e)) =>
                    /\ e \in scheduledEventIds'
                    /\ NewTimers(timers, timers', e) # {} ]_vars

\* after a failure, a tick of the interval has armed an event
W_C10 ==
  /\ failed
  /\ step.op = "refresh"
  /\ now >= config.calendarRefreshMs
  /\ \E i \in 1..Len(step.arms) :
        /\ step.arms[i].branch = "armed"
        /\ step.arms[i].id \in scheduledEventIds

Th_C12 ==
  [][ /\ step'.op = "docAlreadyProcessed" =>
           /\ isProcessed(processedIds, step'.doc)
           /\ isProcessed(processedIds', step'.event)
           /\ Range(processedIds') = Range(processedIds) \cup {step'.event}
           /\ timers' \subseteq timers
           /\ Cardinality(timers \ timers') = 1
           /\ pipelineDone' = pipelineDone
      /\ step'.op = "matched" => ~isProcessed(processedIds, step'.doc)
      /\ \A u \in timers' \ timers :
            u.pc = "fetchMeeting" => ~isProcessed(processedIds, u.doc) ]_vars

\* a callback has found its document in the store and marked its event: the
\* event had not been in the store before, and it has no task left
W_C12 ==
  /\ step.op = "docAlreadyProcessed"
  /\ isProcessed(processedIds, step.doc)
  /\ processedIds[Len(processedIds)] = step.event
  /\ TasksOf(timers, step.event) = {}

\* C13: when the pipeline invocation of a fire callback returns, the event
\* id and the matched document id are both in the dedup store at the end of
\* the callback.
Th_C13 ==
  [][ step'.op = "success" =>
        /\ step'.doc \in DocIds
        /\ isProcessed(processedIds', step'.event)
        /\ isProcessed(processedIds', step'.doc)
        /\ timers' \subseteq timers
        /\ Cardinality(timers \ timers') = 1 ]_vars

\* a pipeline has returned for an event and a document that were both new
W_C13 ==
  /\ step.op = "success"
  /\ Len(processedIds) >= 2
  /\ processedIds[Len(processedIds) - 1] = step.event
  /\ processedIds[Len(processedIds)] = step.doc

\* C14: the callback invokes the pipeline exactly when the fetched meeting is
\* ready, that is when its notes or its transcript is not empty; with both
\* empty it sets the retry timer and invokes nothing.
Th_C14 ==
  [][ /\ step'.op \in {"invoke", "notReady"} =>
           LET ready == step'.notesMarkdown # "" \/ step'.transcript # ""
               mine == {u \in timers' \ timers : u.event.id = step'.event}
           IN /\ (step'.op = "invoke") <=> ready
              /\ ready => \A u \in mine : u.pc = "processMeeting"
              /\ ~ready => \A u \in mine : u.kind = "retry" /\ u.pc = "pending"
              /\ Cardinality(mine) = 1
              /\ pipelineDone' = pipelineDone /\ processedIds' = processedIds
      /\ \A u \in timers' \ timers :
            u.pc = "processMeeting" => step'.op = "invoke" ]_vars

\* a meeting with empty notes and a transcript has gone to the pipeline
W_C14 ==
  /\ step.op = "invoke"
  /\ step.notesMarkdown = "" /\ step.transcript # ""
  /\ \E t \in timers : t.pc = "processMeeting" /\ t.event.id = step.event

\* the distance findMatchingDoc sorts by, and the two bands of the matcher
Dist(doc, event) == Abs(doc.created_at - event.start)

TitleAgrees(doc, event) ==
  LET d == trim(toLowerCase(doc.title))
      e == trim(toLowerCase(event.summary))
  IN d = e \/ includes(d, e) \/ includes(e, d)

TitleBand(docs, event) ==
  {d \in Range(docs) : Dist(d, event) < TitleWindowMs /\ TitleAgrees(d, event)}

FallbackBand(docs, event) ==
  {d \in Range(docs) : Dist(d, event) < FallbackWindowMs}

Matched == call.fn = "findMatchingDoc"

\* C15: whenever a candidate lies in the title band (created less than 2
\* hours from the event start, folded and trimmed title equal to, containing
\* or contained in the event's), the matcher returns a candidate of that
\* band, even when a candidate with another title was created closer.
Th_C15 ==
  Matched =>
    (TitleBand(call.docs, call.event) # {} =>
       call.result \in TitleBand(call.docs, call.event))

\* the title match was returned although a document with another title was
\* created closer to the start, inside the fallback window
W_C15 ==
  /\ Matched
  /\ call.result \in TitleBand(call.docs, call.event)
  /\ \E d \in FallbackBand(call.docs, call.event) :
        /\ ~TitleAgrees(d, call.event)
        /\ Dist(d, call.event) < Dist(call.result, call.event)

Th_C17 ==
  Matched =>
    (TitleBand(call.docs, call.event) = {} =>
       IF FallbackBand(call.docs, call.event) = {}
       THEN call.result = NoDoc
       ELSE /\ call.result \in FallbackBand(call.docs, call.event)
            /\ \A d \in FallbackBand(call.docs, call.event) :
                  Dist(call.result, call.event) <= Dist(d, call.event))

\* no title match; of two candidates inside the fallback band the closer one
\* was returned although it comes second in the list
W_C17 ==
  /\ Matched
  /\ TitleBand(call.docs, call.event) = {}
  /\ Len(call.docs) = 2
  /\ call.result = call.docs[2]
  /\ call.docs[1] \in FallbackBand(call.docs, call.event)
  /\ Dist(call.docs[2], call.event) < Dist(call.docs[1], call.event)

\* C18 as stated: the matcher returns none exactly when no candidate has a
\* matching title with a distance of at most 2 hours and no candidate has a
\* distance of at most 30 minutes; otherwise it returns a member of the list.
CE_C18 ==
  Matched =>
    /\ (call.result = NoDoc) <=>
          /\ ~\E d \in Range(call.docs) :
                Dist(d, call.event) <= TitleWindowMs /\ TitleAgrees(d, call.event)
          /\ ~\E d \in Range(call.docs) : Dist(d, call.event) <= FallbackWindowMs
    /\ call.result # NoDoc => call.result \in Range(call.docs)

\* C18, amended: the matcher returns none exactly when no candidate has a
\* matching title with a distance below 2 hours and no candidate has a
\* distance below 30 minutes; otherwise it returns a member of the list.
Th_C18 ==
  Matched =>
    /\ (call.result = NoDoc) <=>
          /\ ~\E d \in Range(call.docs) :
                Dist(d, call.event) < TitleWindowMs /\ TitleAgrees(d, call.event)
          /\ ~\E d \in Range(call.docs) : Dist(d, call.event) < FallbackWindowMs
    /\ call.result # NoDoc => call.result \in Range(call.docs)

\* none was returned for a candidate created exactly 30 minutes from the
\* start and a candidate with a matching title created exactly 2 hours from it
W_C18 ==
  /\ Matched
  /\ call.result = NoDoc
  /\ \E d \in Range(call.docs) : Dist(d, call.event) = FallbackWindowMs
  /\ \E d \in Range(call.docs) :
        Dist(d, call.event) = TitleWindowMs /\ TitleAgrees(d, call.event)

\* C19: after any sequence of markProcessed calls the store holds at most 500
\* ids, all distinct, and they are the last ones pushed, in the order they
\* were pushed; pushing one more id on a full store evicts its oldest entry.
Th_C19 ==
  /\ [](/\ Len(processedIds) <= StateCap
        /\ processedIds = SliceLast(inserted, StateCap)
        /\ \A i, j \in 1..Len(processedIds) :
              processedIds[i] = processedIds[j] => i = j)
  /\ [][ (call'.fn = "markProcessed" /\ Len(processedIds) = StateCap
            /\ ~isProcessed(processedIds, call'.meetingId)) =>
           processedIds' = Append(Tail(processedIds), call'.meetingId) ]_vars

\* the 501st distinct id has been pushed and the oldest one is gone
W_C19 ==
  /\ call.fn = "markProcessed"
  /\ Len(inserted) = StateCap + 1
  /\ Len(processedIds) = StateCap
  /\ ~isProcessed(processedIds, inserted[1])
  /\ processedIds[1] = inserted[2]
  /\ processedIds[StateCap] = call.meetingId

\* C20: markProcessed(id) for an id that is in the store leaves the store as
\* it is, same ids in the same order, and after any markProcessed(id) the
\* store has id.
Th_C20 ==
  [][ call'.fn = "markProcessed" =>
        /\ isProcessed(processedIds', call'.meetingId)
        /\ isProcessed(processedIds, call'.meetingId) =>
              processedIds' = processedIds /\ inserted' = inserted ]_vars

\* markProcessed was called on a full store for its oldest id
W_C20 ==
  /\ call.fn = "markProcessed"
  /\ call.wasProcessed
  /\ Len(processedIds) = StateCap
  /\ processedIds[1] = call.meetingId

\* C21: after reset, every event the scheduler's next refresh returns is
\* armed again, whether or not the running scheduler had it tracked or had
\* processed it: when that refresh is over the event has a live task.
CE_C21 ==
  [][ (step.op = "cliReset" /\ step'.op = "refresh") =>
        \A e \in ArmedIds(step') :
           /\ TasksOf(timers', e) # {}
           /\ e \in scheduledEventIds' ]_vars

\* C22: markProcessed calls for different ids, from two callbacks of the
\* scheduler or from the scheduler and a CLI process, never lose an entry:
\* once a call has returned, its id is in the state file and stays there.
CE_C22 ==
  \A c \in Callers :
     call.who[c].pc = "returned" => isProcessed(processedIds, call.who[c].meetingId)

\* the state file holds what writeState writes: an object with an array
WellFormed(file) ==
  /\ file.kind = "json"
  /\ file.value.type = "object"
  /\ file.value.processedIds.type = "array"

\* C23: when the state file is missing, unreadable or holds anything but a
\* state, isProcessed returns false for every id and does not throw.
CE_C23 ==
  (call.fn = "isProcessed" /\ ~WellFormed(call.file)) =>
     call.result = [threw |-> FALSE, value |-> FALSE]

\* C24 as stated: fetchTodaysEvents never throws, whatever fails.
CE_C24 ==
  call.fn = "fetchTodaysEvents" => ~call.result.threw

\* C24: fetchTodaysEvents throws exactly when no database file is found; when
\* the file is there, a failing query whose copy fallback fails too gives the
\* empty list, and every outcome is one the scheduler is run against.
Th_C24 ==
  call.fn = "fetchTodaysEvents" =>
     /\ call.result.threw <=> ~call.dbFound
     /\ (call.dbFound /\ call.first.failed /\ (~call.copied \/ call.second.failed))
           => call.result = [threw |-> FALSE, events |-> <<>>]
     /\ call.result \in FetchOutcomes

W_C24 ==
  /\ call.fn = "fetchTodaysEvents"
  /\ call.dbFound /\ call.first.failed /\ call.copied /\ call.second.failed
  /\ call.result = [threw |-> FALSE, events |-> <<>>]

\* C25: when a refresh is over, every event the calendar returned in it is
\* tracked with a live task, or is in the store.
CE_C25 ==
  step.op = "refresh" =>
     \A e \in ArmedIds(step) :
        \/ e \in scheduledEventIds /\ TasksOf(timers, e) # {}
        \/ isProcessed(processedIds, e)

\* the environment is invalid: a credential is missing or malformed, or one
\* of the two numbers is not a number or is below its minimum
InvalidEnv(env) ==
  \/ env.credentials # "ok"
  \/ env.DELAY_AFTER_MEETING_MINUTES = NotANumber
  \/ env.CALENDAR_REFRESH_MINUTES = NotANumber
  \/ env.DELAY_AFTER_MEETING_MINUTES.kind = "number"
       /\ env.DELAY_AFTER_MEETING_MINUTES.value < 1
  \/ env.CALENDAR_REFRESH_MINUTES.kind = "number"
       /\ env.CALENDAR_REFRESH_MINUTES.value < 5

\* the process has fetched the calendar, armed an event or set a timer
Scheduled ==
  \/ step.op # "launch"
  \/ timers # {}
  \/ scheduledEventIds # {}
  \/ intervalAt # NotSet

\* C26: with an invalid environment the process exits with status 1 before
\* any calendar fetch, arm or timer; whenever anything has been scheduled the
\* delay is at least 1 minute (5 when unset) and the refresh interval at
\* least 5 minutes (30 when unset).
Th_C26 ==
  call.fn = "main" =>
     /\ (InvalidEnv(call.env) /\ call.pc # "loadConfig")
           => call.pc = "exited" /\ call.code = 1
     /\ InvalidEnv(call.env) => ~Scheduled
     /\ Scheduled =>
           /\ call.pc = "running"
           /\ config.delayAfterMeetingMs >= Sec(1 * 60 * 1000)
           /\ config.calendarRefreshMs >= Sec(5 * 60 * 1000)
           /\ call.env.DELAY_AFTER_MEETING_MINUTES = Unset
                 => config.delayAfterMeetingMs = Sec(5 * 60 * 1000)
           /\ call.env.CALENDAR_REFRESH_MINUTES = Unset
                 => config.calendarRefreshMs = Sec(30 * 60 * 1000)

W_C26 ==
  /\ call.fn = "main" /\ call.pc = "exited" /\ call.code = 1
  /\ call.env.credentials = "ok"
  /\ call.env.DELAY_AFTER_MEETING_MINUTES = Num(0)

W_C26_scheduled ==
  /\ call.fn = "main" /\ call.pc = "running"
  /\ call.env.DELAY_AFTER_MEETING_MINUTES = Unset
  /\ call.env.CALENDAR_REFRESH_MINUTES = Num(5)
  /\ timers # {} /\ intervalAt # NotSet

\* the step adds id to the store
Added(id) == isProcessed(processedIds', id) /\ ~isProcessed(processedIds, id)

\* C27: an id enters the store only when processMeeting has returned for the
\* matched document (in the scheduler: the event id and the document id; in
\* the CLI: the document id), or as the event id when the matched document
\* was found in the store; no-match, not-ready and failure add nothing.
Th_C27 ==
  [][ \A id \in EventIds \cup DocIds :
        Added(id) =>
          \/ /\ step'.op = "success"
             /\ id \in {step'.event, step'.doc}
             /\ \E t \in timers \ timers' :
                   t.pc = "processMeeting" /\ t.event.id = step'.event /\ t.doc = step'.doc
          \/ /\ step'.op = "cliSuccess"
             /\ id = step'.doc
             /\ cli.pc = "processMeeting" /\ cli.doc = id
          \/ /\ step'.op = "docAlreadyProcessed"
             /\ id = step'.event
             /\ isProcessed(processedIds, step'.doc) ]_vars

\* the scheduler has just added an event id because its document was in the
\* store, put there by a run of the CLI
W_C27 ==
  /\ step.op = "docAlreadyProcessed"
  /\ inserted = <<step.doc, step.event>>
  /\ processedIds = inserted

\* C28: a retry attempt holds no document until its own fetchDocuments call
\* has resolved, and what it does then is what findMatchingDoc gives on the
\* list that call resolved to: no match, document already processed, or
\* fetchMeeting of that document.
Th_C28 ==
  /\ [](\A t \in timers :
          (t.kind = "fire" /\ t.pc \in {"pending", "fetchDocuments"}) => t.doc = "none")
  /\ [][ /\ \A u \in timers' \ timers :
              (u.attempt >= 1 /\ u.pc = "fetchMeeting") =>
                 /\ step'.op = "matched"
                 /\ \E t \in timers \ timers' : t.id = u.id /\ t.pc = "fetchDocuments"
         /\ step'.op \in {"noMatch", "docAlreadyProcessed", "matched"} =>
              \A t \in timers \ timers' :
                 t.attempt >= 1 =>
                    LET matchingDoc == findMatchingDoc(step'.docs, t.event)
                    IN IF matchingDoc = NoDoc THEN step'.op = "noMatch"
                       ELSE IF isProcessed(processedIds, matchingDoc.id)
                       THEN step'.op = "docAlreadyProcessed" /\ step'.doc = matchingDoc.id
                       ELSE /\ step'.op = "matched"
                            /\ \E u \in timers' \ timers :
                                  /\ u.id = t.id /\ u.pc = "fetchMeeting"
                                  /\ u.doc = matchingDoc.id ]_vars

\* a retry attempt has matched d1, which came last in the list it fetched
W_C28 ==
  /\ step.op = "matched"
  /\ Len(step.docs) = 2 /\ step.docs[1].id = "d2" /\ step.docs[2].id = "d1"
  /\ \E t \in timers :
        /\ t.attempt >= 1 /\ t.pc = "fetchMeeting"
        /\ t.event.id = step.event /\ t.doc = step.doc

CE_C30 ==
  step.op = "refresh" =>
     \A i \in 1..Len(step.arms) :
        step.arms[i].branch = "tracked" =>
           \A t \in TasksOf(timers, step.arms[i].id) :
              (t.kind = "fire" /\ t.pc = "pending" /\ t.attempt = 0) =>
                 /\ t.event.end = step.arms[i].end
                 /\ t.fireAt >= step.arms[i].end + config.delayAfterMeetingMs

\* C31: when a fire callback has ended an event's processing (success,
\* matched document already processed, no match, failure), the event id is
\* no longer in the tracked set, unless another task of the id is still live.
CE_C31 ==
  step.op \in {"success", "docAlreadyProcessed", "noMatch", "catch"} =>
     (step.event \in scheduledEventIds => TasksOf(timers, step.event) # {})

\* the lists that hold the documents of docs in another order
Permuted(docs) ==
  { [i \in 1..Len(docs) |-> docs[p[i]]] :
      p \in {q \in [1..Len(docs) -> 1..Len(docs)] :
                \A i, j \in 1..Len(docs) : i # j => q[i] # q[j]} }

\* the band the matcher chooses from: the title band, or the fallback band
\* when the title band is empty
Band(docs, event) ==
  IF TitleBand(docs, event) # {} THEN TitleBand(docs, event)
  ELSE FallbackBand(docs, event)

CE_C33 ==
  \A e \in scheduledEventIds :
     ~isProcessed(processedIds, e) => TasksOf(timers, e) # {}

====
